---- MODULE Spec2Model ----
(***************************************************************************)
(* Model of the reusable logger module: the sink composer                  *)
(* (createWinstonConfig / ensureLogDirectory / forRootAsync's factory) and *)
(* the logging facade (ReusableLoggerService / ReusableChildLogger).       *)
(*                                                                         *)
(* An optional JavaScript value is a sequence of length 0 or 1: <<>> is    *)
(* `undefined`, <<v>> is the value v.                                      *)
(***************************************************************************)
EXTENDS Integers, Sequences, FiniteSets, TLC

VARIABLES
    options,      \* the ReusableLoggerOptions handed to the composer
    fs,           \* the file system: [exists, creatable], sets of directories
    pc,           \* "start" before composition, "composed" after it
    config,       \* the winston.LoggerOptions returned by createWinstonConfig
    diagnostics,  \* console.error calls made so far, in order
    mkdirs,       \* fs.mkdirSync calls made so far, in order: [dir, ok]
    services,     \* ReusableLoggerService instances: [currentContext, logger]
    children,     \* ReusableChildLogger objects created so far
    lastSet,      \* per service instance: the argument of its last setContext
    call,         \* the facade call in progress, [method |-> "none"] if none
    emitted,      \* the events that call handed to the backend, in order
    delivered     \* per event of that call: the transports that received it

vars == <<options, fs, pc, config, diagnostics, mkdirs, services, children,
          lastSet, call, emitted, delivered>>

composeVars == <<options, fs, pc, config, diagnostics, mkdirs>>
facadeVars == <<services, children, lastSet, call, emitted, delivered>>

(***************************************************************************)
(* Bounds.                                                                 *)
(***************************************************************************)
MaxFilesBound == 3
NumServices == 2

(***************************************************************************)
(* JavaScript values.                                                      *)
(***************************************************************************)
Undefined == <<>>

Opt(S) == {Undefined} \cup {<<v>> : v \in S}

Defined(x) == x # Undefined

\* truthiness of an optional string: undefined and "" are falsy
TruthyStr(x) == Defined(x) /\ x[1] # ""

\* truthiness of an optional number: undefined and 0 are falsy
TruthyNum(x) == Defined(x) /\ x[1] # 0

\* truthiness of an optional boolean
TruthyBool(x) == Defined(x) /\ x[1]

\* a || b on optional values, for a string-valued a
OrStr(a, b) == IF TruthyStr(a) THEN a ELSE b

(***************************************************************************)
(* Log levels.  nestToWinstonLogLevel maps a severity method to its level; *)
(* LevelRank is the level's number in the backend (npm levels): a smaller  *)
(* number is a more severe level.                                          *)
(***************************************************************************)
nestToWinstonLogLevel(m) ==
    CASE m = "log" -> "info"
      [] m = "error" -> "error"
      [] m = "warn" -> "warn"
      [] m = "debug" -> "debug"
      [] m = "verbose" -> "verbose"

Levels == {"error", "warn", "info", "verbose", "debug", "silly"}

LevelRank(l) ==
    CASE l = "error" -> 0
      [] l = "warn" -> 1
      [] l = "info" -> 2
      [] l = "verbose" -> 4
      [] l = "debug" -> 5
      [] l = "silly" -> 6

(***************************************************************************)
(* The options a caller can supply.                                        *)
(***************************************************************************)
Dirs == {"logs", "/tmp/logs"}
Envs == {"", "development", "production", "test"}

OptionsSpace ==
    [level: Opt(Levels \cup {""}),
     enableConsole: Opt(BOOLEAN),
     enableFile: Opt(BOOLEAN),
     logDir: Opt({"", "/tmp/logs"}),
     maxFiles: Opt(0..MaxFilesBound),
     nodeEnv: Opt(Envs)]

FileSystems == [exists: SUBSET Dirs, creatable: SUBSET Dirs]

(***************************************************************************)
(* ensureLogDirectory: the effect on the file system, the mkdirSync calls  *)
(* and the diagnostics.  mkdirSync succeeds on the creatable directories   *)
(* and throws on the others; the throw is caught.                          *)
(***************************************************************************)
ensureLogDirectory(f, logDir) ==
    IF logDir \in f.exists
    THEN [fs |-> f, mkdirs |-> <<>>, diagnostics |-> <<>>]
    ELSE IF logDir \in f.creatable
         THEN [fs |-> [f EXCEPT !.exists = @ \cup {logDir}],
               mkdirs |-> <<[dir |-> logDir, ok |-> TRUE]>>,
               diagnostics |-> <<>>]
         ELSE [fs |-> f,
               mkdirs |-> <<[dir |-> logDir, ok |-> FALSE]>>,
               diagnostics |-> <<[kind |-> "mkdirFailed", dir |-> logDir]>>]

(***************************************************************************)
(* createWinstonConfig.                                                    *)
(***************************************************************************)
logLevelOf(o) == IF TruthyStr(o.level) THEN o.level[1] ELSE "info"
enableConsoleOf(o) == IF Defined(o.enableConsole) THEN o.enableConsole[1] ELSE TRUE
enableFileOf(o) == IF TruthyBool(o.enableFile) THEN TRUE ELSE FALSE
logDirOf(o) == IF TruthyStr(o.logDir) THEN o.logDir[1] ELSE "logs"
maxFilesOf(o) == IF TruthyNum(o.maxFiles) THEN o.maxFiles[1] ELSE 10
nodeEnvOf(o) == IF TruthyStr(o.nodeEnv) THEN o.nodeEnv[1] ELSE "development"
isProductionOf(o) == nodeEnvOf(o) = "production"

\* variant: the console keeps the configured level in production too
ConsoleTransport_keepLevel(o) ==
    [kind |-> "console",
     level |-> logLevelOf(o),
     handleExceptions |-> TRUE]

ConsoleTransport(o) ==
    [kind |-> "console",
     level |-> IF isProductionOf(o) THEN "info" ELSE logLevelOf(o),
     handleExceptions |-> TRUE]

FileTransport(dir, tier, level, keep, handle) ==
    [kind |-> "file",
     filename |-> <<dir, tier, "-%DATE%.log">>,
     level |-> level,
     maxFiles |-> keep,
     handleExceptions |-> handle]

\* variant: the debug file depends on the environment only
debugFileWanted_envOnly(o) == ~isProductionOf(o)

debugFileWanted(o) ==
    \/ ~isProductionOf(o)
    \/ logLevelOf(o) = "debug"
    \/ logLevelOf(o) = "verbose"
    \/ logLevelOf(o) = "silly"

\* variant: the error file keeps maxFiles files, like the other tiers
FileTransports_sameKeep(o) ==
    LET dir == logDirOf(o)
        n == maxFilesOf(o)
    IN  <<FileTransport(dir, "error", "error", n, TRUE),
          FileTransport(dir, "warn", "warn", n, FALSE),
          FileTransport(dir, "info", "info", n, FALSE),
          FileTransport(dir, "combined", logLevelOf(o), n, FALSE)>>
        \o (IF debugFileWanted(o)
            THEN <<FileTransport(dir, "debug", "debug", n, FALSE)>>
            ELSE <<>>)

FileTransports(o) ==
    LET dir == logDirOf(o)
        n == maxFilesOf(o)
    IN  <<FileTransport(dir, "error", "error", n * 2, TRUE),
          FileTransport(dir, "warn", "warn", n, FALSE),
          FileTransport(dir, "info", "info", n, FALSE),
          FileTransport(dir, "combined", logLevelOf(o), n, FALSE)>>
        \o (IF debugFileWanted(o)
            THEN <<FileTransport(dir, "debug", "debug", n, FALSE)>>
            ELSE <<>>)

\* the result of createWinstonConfig(o) on file system f
createWinstonConfig(f, o) ==
    LET console == IF enableConsoleOf(o) THEN <<ConsoleTransport(o)>> ELSE <<>>
        ensured == ensureLogDirectory(f, logDirOf(o))
    IN  IF ~enableFileOf(o)
        THEN [fs |-> f, mkdirs |-> <<>>, diagnostics |-> <<>>,
              config |-> [level |-> logLevelOf(o), transports |-> console,
                          exitOnError |-> FALSE]]
        ELSE IF logDirOf(o) = ""
        THEN [fs |-> f, mkdirs |-> <<>>,
              diagnostics |-> <<[kind |-> "noLogDir", dir |-> ""]>>,
              config |-> [level |-> logLevelOf(o), transports |-> console,
                          exitOnError |-> FALSE]]
        ELSE [fs |-> ensured.fs, mkdirs |-> ensured.mkdirs,
              diagnostics |-> ensured.diagnostics,
              config |-> [level |-> logLevelOf(o),
                          transports |-> console \o FileTransports(o),
                          exitOnError |-> FALSE]]

NoConfig == [level |-> "", transports |-> <<>>, exitOnError |-> FALSE]

(***************************************************************************)
(* The composer as a state machine.                                        *)
(***************************************************************************)
\* a direct call of the exported createWinstonConfig
CreateWinstonConfig ==
    /\ pc = "start"
    /\ LET r == createWinstonConfig(fs, options)
       IN  /\ fs' = r.fs
           /\ mkdirs' = mkdirs \o r.mkdirs
           /\ diagnostics' = diagnostics \o r.diagnostics
           /\ config' = r.config
    /\ pc' = "composed"
    /\ UNCHANGED <<options, facadeVars>>

\* the useFactory of forRootAsync: an early ensureLogDirectory, then
\* createWinstonConfig
UseFactory ==
    /\ pc = "start"
    /\ LET early == IF TruthyBool(options.enableFile) /\ TruthyStr(options.logDir)
                    THEN ensureLogDirectory(fs, options.logDir[1])
                    ELSE [fs |-> fs, mkdirs |-> <<>>, diagnostics |-> <<>>]
           r == createWinstonConfig(early.fs, options)
       IN  /\ fs' = r.fs
           /\ mkdirs' = mkdirs \o early.mkdirs \o r.mkdirs
           /\ diagnostics' = diagnostics \o early.diagnostics \o r.diagnostics
           /\ config' = r.config
    /\ pc' = "composed"
    /\ UNCHANGED <<options, facadeVars>>

(***************************************************************************)
(* The backend: a winston logger built from the composed configuration.    *)
(* The logger drops an event below its own level; every transport then     *)
(* applies its own level.                                                  *)
(***************************************************************************)
WINSTON_MODULE_PROVIDER == "winston"

Accepts(floor, lvl) == LevelRank(floor) >= LevelRank(lvl)

\* variant: a logger without a level of its own
Dispatch_noLoggerLevel(cfg, lvl) ==
    {k \in 1..Len(cfg.transports) : Accepts(cfg.transports[k].level, lvl)}

Dispatch(cfg, lvl) ==
    IF Accepts(cfg.level, lvl)
    THEN {k \in 1..Len(cfg.transports) : Accepts(cfg.transports[k].level, lvl)}
    ELSE {}

(***************************************************************************)
(* Arguments of the facade calls.                                          *)
(***************************************************************************)
Contexts == {"", "A", "B"}
Messages == {"msg"}
RestMetas == {<<>>}

NoTrace == [type |-> "undefined"]
StringTrace(v) == [type |-> "string", value |-> v]
ErrorObject(m, st) == [type |-> "Error", message |-> m, stack |-> st]

Traces == {NoTrace, StringTrace(""), StringTrace("at f (a.ts:1)"),
           ErrorObject("boom", <<"Error: boom at g (b.ts:2)">>)}

Operations == {"load"}
Durations == {12}

\* the `meta` object of performance(): undefined, or an object with one key
NoMetaObject == [k \in {} |-> 0]
PerfMetas == {NoMetaObject,
              [requestId |-> "r1"],
              [operation |-> "other"],
              [duration |-> 0],
              [context |-> <<"Meta">>]}

\* { ...a, ...b }
Spread(a, b) ==
    [k \in DOMAIN a \cup DOMAIN b |-> IF k \in DOMAIN b THEN b[k] ELSE a[k]]

(***************************************************************************)
(* ReusableLoggerService.                                                  *)
(***************************************************************************)
NewService == [currentContext |-> Undefined, logger |-> WINSTON_MODULE_PROVIDER]

setContext(svcs, i, context) ==
    [svcs EXCEPT ![i].currentContext = <<context>>]

\* variant: context ?? this.currentContext
serviceContext_nullish(svc, context) ==
    IF Defined(context) THEN context ELSE svc.currentContext

\* context || this.currentContext
serviceContext(svc, context) == OrStr(context, svc.currentContext)

Event(logger, level, message, payload) ==
    [logger |-> logger, level |-> level, message |-> message,
     payload |-> payload]

\* variant: the stack field takes the error's message
errorMeta_message(context, meta, trace) ==
    LET base == [context |-> context, meta |-> meta]
    IN  IF trace.type = "Error"
        THEN Spread(base, [stack |-> <<trace.message>>])
        ELSE IF trace.type = "string" /\ trace.value # ""
        THEN Spread(base, [trace |-> trace.value])
        ELSE base

errorMeta(context, meta, trace) ==
    LET base == [context |-> context, meta |-> meta]
    IN  IF trace.type = "Error"
        THEN Spread(base, [stack |-> trace.stack])
        ELSE IF trace.type = "string" /\ trace.value # ""
        THEN Spread(base, [trace |-> trace.value])
        ELSE base

\* log, warn, debug, verbose of the service
serviceEvent(svc, level, message, context, meta) ==
    Event(svc.logger, level, message,
          [context |-> serviceContext(svc, context), meta |-> meta])

serviceError(svc, message, trace, context, meta) ==
    Event(svc.logger, "error", message,
          errorMeta(serviceContext(svc, context), meta, trace))

\* the message is the template literal's parts: operation, text, duration, "ms"
performance(svc, operation, duration, context, meta) ==
    Event(svc.logger, "debug",
          <<operation, " took: ", duration, "ms">>,
          Spread([context |-> OrStr(context, <<"Performance">>),
                  operation |-> operation,
                  duration |-> duration],
                 meta))

\* variant: the child starts from the parent's context when it has one
createChildLogger_inherit(svc, context) ==
    [winstonLoggerInstance |-> svc.logger,
     context |-> IF Defined(svc.currentContext)
                 THEN svc.currentContext[1] ELSE context]

createChildLogger(svc, context) ==
    [winstonLoggerInstance |-> svc.logger, context |-> context]

(***************************************************************************)
(* ReusableChildLogger.                                                    *)
(***************************************************************************)
childEvent(ch, level, message, meta) ==
    Event(ch.winstonLoggerInstance, level, message,
          [context |-> <<ch.context>>, meta |-> meta])

childError(ch, message, trace, meta) ==
    Event(ch.winstonLoggerInstance, "error", message,
          errorMeta(<<ch.context>>, meta, trace))

(***************************************************************************)
(* The facade as a state machine.  Calls are synchronous and one at a time: *)
(* a call starts when none is in progress, and Complete ends it; the log   *)
(* events of a call are not retained after it.  A child is kept together   *)
(* with the argument it was created with and the backend handle its parent *)
(* held when it was created.                                               *)
(***************************************************************************)
Idle == [method |-> "none"]

Ready == pc = "composed" /\ call = Idle

Hand(c, evs) ==
    /\ call' = c
    /\ emitted' = evs
    /\ delivered' = [k \in 1..Len(evs) |-> Dispatch(config, evs[k].level)]

SetContext ==
    /\ Ready
    /\ \E i \in 1..NumServices, context \in Contexts :
         /\ services' = setContext(services, i, context)
         /\ lastSet' = [lastSet EXCEPT ![i] = <<context>>]
         /\ Hand([method |-> "setContext", via |-> i, arg |-> context], <<>>)
    /\ UNCHANGED <<composeVars, children>>

ServiceSeverity(method, level) ==
    /\ Ready
    /\ \E i \in 1..NumServices, message \in Messages,
          context \in Opt(Contexts), meta \in RestMetas :
         Hand([method |-> method, on |-> "service", via |-> i,
               message |-> message, context |-> context, meta |-> meta],
              <<serviceEvent(services[i], level, message, context, meta)>>)
    /\ UNCHANGED <<composeVars, services, children, lastSet>>

Log == ServiceSeverity("log", "info")
Warn == ServiceSeverity("warn", "warn")
Debug == ServiceSeverity("debug", "debug")
Verbose == ServiceSeverity("verbose", "verbose")

Error ==
    /\ Ready
    /\ \E i \in 1..NumServices, message \in Messages, trace \in Traces,
          context \in Opt(Contexts), meta \in RestMetas :
         Hand([method |-> "error", on |-> "service", via |-> i,
               message |-> message, trace |-> trace, context |-> context,
               meta |-> meta],
              <<serviceError(services[i], message, trace, context, meta)>>)
    /\ UNCHANGED <<composeVars, services, children, lastSet>>

Performance ==
    /\ Ready
    /\ \E i \in 1..NumServices, operation \in Operations,
          duration \in Durations, context \in Opt(Contexts),
          meta \in PerfMetas :
         Hand([method |-> "performance", on |-> "service", via |-> i,
               operation |-> operation, duration |-> duration,
               context |-> context, meta |-> meta],
              <<performance(services[i], operation, duration, context, meta)>>)
    /\ UNCHANGED <<composeVars, services, children, lastSet>>

CreateChildLogger ==
    /\ Ready
    /\ \E i \in 1..NumServices, context \in Contexts :
         /\ children' = children \cup
                {[object |-> createChildLogger(services[i], context),
                  createdWith |-> context,
                  parentLogger |-> services[i].logger]}
         /\ Hand([method |-> "createChildLogger", via |-> i, arg |-> context],
                 <<>>)
    /\ UNCHANGED <<composeVars, services, lastSet>>

ChildSeverity(method, level) ==
    /\ Ready
    /\ \E ch \in children, message \in Messages, meta \in RestMetas :
         Hand([method |-> method, on |-> "child", via |-> ch,
               message |-> message, meta |-> meta],
              <<childEvent(ch.object, level, message, meta)>>)
    /\ UNCHANGED <<composeVars, services, children, lastSet>>

ChildLog == ChildSeverity("log", "info")
ChildWarn == ChildSeverity("warn", "warn")
ChildDebug == ChildSeverity("debug", "debug")
ChildVerbose == ChildSeverity("verbose", "verbose")

ChildError ==
    /\ Ready
    /\ \E ch \in children, message \in Messages, trace \in Traces,
          meta \in RestMetas :
         Hand([method |-> "error", on |-> "child", via |-> ch,
               message |-> message, trace |-> trace, meta |-> meta],
              <<childError(ch.object, message, trace, meta)>>)
    /\ UNCHANGED <<composeVars, services, children, lastSet>>

Complete ==
    /\ pc = "composed"
    /\ call # Idle
    /\ call' = Idle
    /\ emitted' = <<>>
    /\ delivered' = <<>>
    /\ UNCHANGED <<composeVars, services, children, lastSet>>

(***************************************************************************)
(* Specifications.                                                         *)
(***************************************************************************)
FacadeInit ==
    /\ services = [i \in 1..NumServices |-> NewService]
    /\ children = {}
    /\ lastSet = [i \in 1..NumServices |-> Undefined]
    /\ call = Idle
    /\ emitted = <<>>
    /\ delivered = <<>>

StartInit ==
    /\ pc = "start"
    /\ config = NoConfig
    /\ diagnostics = <<>>
    /\ mkdirs = <<>>

\* the composer over every option record and every file system
ComposeInit ==
    /\ options \in OptionsSpace
    /\ fs \in FileSystems
    /\ StartInit
    /\ FacadeInit

ComposeNext == CreateWinstonConfig \/ UseFactory

ComposeSpec == ComposeInit /\ [][ComposeNext]_vars

\* the whole module: composition, then facade calls on the composed backend
FacadeOptions ==
    [level: Opt(Levels),
     enableConsole: {Undefined},
     enableFile: {<<FALSE>>, <<TRUE>>},
     logDir: {Undefined},
     maxFiles: {Undefined},
     nodeEnv: {Undefined, <<"production">>}]

Init ==
    /\ options \in FacadeOptions
    /\ fs = [exists |-> {"logs"}, creatable |-> {}]
    /\ StartInit
    /\ FacadeInit

Next ==
    \/ CreateWinstonConfig
    \/ UseFactory
    \/ SetContext
    \/ Log
    \/ Error
    \/ Warn
    \/ Debug
    \/ Verbose
    \/ Performance
    \/ CreateChildLogger
    \/ ChildLog
    \/ ChildError
    \/ ChildWarn
    \/ ChildDebug
    \/ ChildVerbose
    \/ Complete

Spec == Init /\ [][Next]_vars

(***************************************************************************)
(* Properties.                                                             *)
(***************************************************************************)
Composed == pc = "composed"

\* what the options resolve to, read off the options
MinLevel == IF options.level \in {Undefined, <<"">>} THEN "info" ELSE options.level[1]
ConsoleEnabled == options.enableConsole # <<FALSE>>
FileEnabled == options.enableFile = <<TRUE>>
Production == options.nodeEnv = <<"production">>
LogDir == IF options.logDir \in {Undefined, <<"">>} THEN "logs" ELSE options.logDir[1]

IsFile(t) == t.kind = "file"
IsConsole(t) == t.kind = "console"
FileSinks == SelectSeq(config.transports, IsFile)
ConsoleSinks == SelectSeq(config.transports, IsConsole)
Tier(t) == t.filename[2]
TiersAndFloors == [k \in 1..Len(FileSinks) |-> <<Tier(FileSinks[k]), FileSinks[k].level>>]

MkdirFailed == \E k \in 1..Len(mkdirs) : ~mkdirs[k].ok

\* C1: when file logging is enabled and creating the log directory fails,
\* composition surfaces exactly one diagnostic and composes no file sink, and
\* the console sink is still there if console logging is enabled.
C1_FailedDirectoryDropsFileSinks ==
    (Composed /\ FileEnabled /\ MkdirFailed) =>
        /\ Len(diagnostics) = 1
        /\ FileSinks = <<>>
        /\ (ConsoleEnabled => Len(ConsoleSinks) = 1)

\* C3: the file sinks are none when file logging is off; with file logging on
\* and a usable directory they are error, warn, info, combined (floor = the
\* configured minimum level), in that order, followed by debug (floor debug)
\* exactly when the environment is not production or the level is debug,
\* verbose or silly.
C3_FileSinks ==
    Composed =>
        /\ ~FileEnabled => FileSinks = <<>>
        /\ (FileEnabled /\ LogDir \in fs.exists) =>
             TiersAndFloors =
                <<<<"error", "error">>, <<"warn", "warn">>, <<"info", "info">>,
                  <<"combined", MinLevel>>>>
                \o (IF ~Production \/ MinLevel \in {"debug", "verbose", "silly"}
                    THEN <<<<"debug", "debug">>>>
                    ELSE <<>>)

C3_Witness ==
    /\ Composed /\ FileEnabled /\ LogDir \in fs.exists
    /\ Production /\ MinLevel = "verbose"
    /\ Len(FileSinks) = 5
    /\ Tier(FileSinks[5]) = "debug"

\* C4: there is exactly one console sink when console logging is enabled and
\* none otherwise, it comes before every file sink, and its floor is info in
\* production and the configured floor in every other environment.
C4_ConsoleSink ==
    Composed =>
        /\ Len(ConsoleSinks) = (IF ConsoleEnabled THEN 1 ELSE 0)
        /\ \A k \in 1..Len(config.transports) :
             IsConsole(config.transports[k]) => k = 1
        /\ ConsoleEnabled =>
             config.transports[1].level =
                (IF Production THEN "info" ELSE MinLevel)

C4_Witness ==
    /\ Composed /\ ConsoleEnabled /\ FileEnabled /\ Production
    /\ MinLevel = "debug"
    /\ config.transports[1].level = "info"
    /\ Len(config.transports) = 6

\* C5: with file logging enabled and a valid maxFiles (10 when not supplied),
\* the error file sink retains 2 x maxFiles files and every other file sink
\* retains maxFiles.
C5_Retention ==
    (Composed /\ FileEnabled /\ options.maxFiles # <<0>>) =>
        LET n == IF options.maxFiles = Undefined THEN 10 ELSE options.maxFiles[1]
        IN  /\ FileSinks # <<>>
            /\ \A k \in 1..Len(FileSinks) :
                 FileSinks[k].maxFiles =
                    (IF Tier(FileSinks[k]) = "error" THEN 2 * n ELSE n)

C5_Witness ==
    /\ Composed /\ FileEnabled /\ options.maxFiles = <<MaxFilesBound>>
    /\ Len(FileSinks) = 5
    /\ FileSinks[1].maxFiles = 2 * MaxFilesBound
    /\ FileSinks[5].maxFiles = MaxFilesBound

\* C10: when file logging is enabled and the configured log directory is the
\* empty string, composition emits a diagnostic, composes no file sink and
\* attempts to create no directory.
C10_EmptyLogDirSkipsFiles ==
    (Composed /\ FileEnabled /\ options.logDir = <<"">>) =>
        /\ diagnostics # <<>>
        /\ FileSinks = <<>>
        /\ mkdirs = <<>>

SeverityMethods == {"log", "error", "warn", "debug", "verbose"}
SeverityCall == call.method \in SeverityMethods
ServiceSeverityCall == SeverityCall /\ call.on = "service"
ChildSeverityCall == SeverityCall /\ call.on = "child"

FloorAdmits(t, lvl) == LevelRank(t.level) >= LevelRank(lvl)
SinksAdmitting(lvl) ==
    {k \in 1..Len(config.transports) : FloorAdmits(config.transports[k], lvl)}

C6_ChildContext ==
    ChildSeverityCall =>
        /\ Len(emitted) = 1
        /\ emitted[1].payload.context = <<call.via.createdWith>>
        /\ emitted[1].logger = call.via.parentLogger

C6_Witness ==
    /\ ChildSeverityCall
    /\ call.via.createdWith = "A"
    /\ \A i \in 1..NumServices : services[i].currentContext = <<"B">>
    /\ emitted[1].payload.context = <<"A">>

\* C7 as stated: a severity call with an explicit context string emits an
\* event with that context, a call without one emits an event with the
\* context last set on that instance (absent if none was), and an instance's
\* context is the one last set on that instance.
C7_ExplicitContextWins ==
    /\ \A i \in 1..NumServices : services[i].currentContext = lastSet[i]
    /\ ServiceSeverityCall =>
         /\ Len(emitted) = 1
         /\ emitted[1].payload.context =
               (IF Defined(call.context) THEN call.context
                ELSE lastSet[call.via])

\* C7 as amended: a severity call with an explicit non-empty context string
\* emits an event with that context; a call that omits the context, or passes
\* the empty string, emits an event with the context last set on that
\* instance (absent if none was); an instance's context is the one last set
\* on that instance.
C7_NonEmptyContextWins ==
    /\ \A i \in 1..NumServices : services[i].currentContext = lastSet[i]
    /\ ServiceSeverityCall =>
         /\ Len(emitted) = 1
         /\ emitted[1].payload.context =
               (IF Defined(call.context) /\ call.context # <<"">>
                THEN call.context
                ELSE lastSet[call.via])

C7_Witness ==
    /\ ServiceSeverityCall
    /\ call.context = <<"">>
    /\ lastSet[call.via] = <<"A">>
    /\ \E j \in 1..NumServices : j # call.via /\ lastSet[j] = <<"B">>
    /\ emitted[1].payload.context = <<"A">>

\* C8: error(message, trace, ...) on a service or a child emits an error
\* event whose stack is the stack text of an error-like trace (not its
\* message), whose trace detail is a non-empty string trace (and then it has
\* no stack), and which carries neither when the trace is absent or empty.
C8_ErrorTrace ==
    (SeverityCall /\ call.method = "error") =>
        LET p == emitted[1].payload
            t == call.trace
        IN  /\ Len(emitted) = 1
            /\ emitted[1].level = "error"
            /\ t.type = "Error" =>
                 /\ "stack" \in DOMAIN p /\ p.stack = t.stack
                 /\ p.stack # <<t.message>>
                 /\ "trace" \notin DOMAIN p
            /\ (t.type = "string" /\ t.value # "") =>
                 /\ "trace" \in DOMAIN p /\ p.trace = t.value
                 /\ "stack" \notin DOMAIN p
            /\ (t.type = "undefined" \/ (t.type = "string" /\ t.value = "")) =>
                 /\ "stack" \notin DOMAIN p
                 /\ "trace" \notin DOMAIN p

C8_Witness ==
    /\ ChildSeverityCall /\ call.method = "error"
    /\ call.trace.type = "Error"
    /\ emitted[1].payload.stack = call.trace.stack

\* C9: performance(operation, durationMs, context, meta), with any meta
\* record, emits exactly one debug event whose metadata fields operation and
\* duration are the call's operation and duration, and whose context is the
\* supplied context, or the fixed performance context when none is supplied
\* (an empty string is read as none).
C9_PerformanceFields ==
    call.method = "performance" =>
        /\ Len(emitted) = 1
        /\ emitted[1].level = "debug"
        /\ emitted[1].payload.operation = call.operation
        /\ emitted[1].payload.duration = call.duration
        /\ emitted[1].payload.context =
              (IF Defined(call.context) /\ call.context # <<"">>
               THEN call.context
               ELSE <<"Performance">>)

====
